---- MODULE Spec2Model ----
(***************************************************************************)
(* A model of marbles (src/marbles/marbles.py): the assertion wrapper of   *)
(* AnnotatedTestCase, the construction of AnnotatedAssertionError (stack   *)
(* inspection, template expansion, source reconstruction, rendering) and   *)
(* the memoising properties of a constructed failure.                      *)
(*                                                                         *)
(* Python strings are TLA+ strings, taken apart character by character     *)
(* with Len, SubSeq, Head, Tail and \o.                                    *)
(***************************************************************************)
EXTENDS Integers, Sequences, FiniteSets, TLC

\* s[i:j] in 1-based inclusive positions, and one character of s
Ch(s, i) == SubSeq(s, i, i)
From(s, i) == SubSeq(s, i, Len(s))

\* str.startswith
StartsWith(s, p) == Len(s) >= Len(p) /\ SubSeq(s, 1, Len(p)) = p

Min(S) == CHOOSE i \in S : \A j \in S : i <= j
Max(S) == CHOOSE i \in S : \A j \in S : i >= j

\* the first position >= i at which string p occurs in s, 0 when there is none
IndexOf(s, p, i) ==
    LET I == {j \in i..(Len(s) - Len(p) + 1) : SubSeq(s, j, j + Len(p) - 1) = p}
    IN  IF I = {} THEN 0 ELSE Min(I)

RECURSIVE Cat(_, _, _)
\* the strings cs[lo..hi] one after the other
Cat(cs, lo, hi) ==
    IF lo > hi THEN ""
    ELSE IF lo = hi THEN cs[lo]
    ELSE LET mid == (lo + hi) \div 2
         IN  Cat(cs, lo, mid) \o Cat(cs, mid + 1, hi)

Rep(c, n) == Cat([i \in 1..n |-> c], 1, n)

RECURSIVE Join(_, _)
\* sep.join(parts)
Join(parts, sep) ==
    IF parts = <<>> THEN ""
    ELSE IF Len(parts) = 1 THEN parts[1]
    ELSE parts[1] \o sep \o Join(Tail(parts), sep)

RECURSIVE Split(_, _)
\* the first separator of s is at j (0: none)
SplitAt(s, sep, j) ==
    IF j = 0 THEN <<s>>
    ELSE <<SubSeq(s, 1, j - 1)>> \o Split(From(s, j + Len(sep)), sep)

\* s.split(sep)
Split(s, sep) == SplitAt(s, sep, IndexOf(s, sep, 1))

\* xs[:-1]
ButLast(xs) == SubSeq(xs, 1, Len(xs) - 1)

\* the items of s at the positions I, in order
SelectFrom(s, I) ==
    [k \in 1..Cardinality(I) |-> s[CHOOSE i \in I : Cardinality({j \in I : j <= i}) = k]]

Whitespace == {" ", "\t", "\n", "\r"}
Digits == {"0", "1", "2", "3", "4", "5", "6", "7", "8", "9"}

(***************************************************************************)
(* A value that may be None is [some, v].  A locals snapshot is what       *)
(* traceback.StackSummary.extract captures with capture_locals=True: an    *)
(* ordered mapping name -> repr(value), here a sequence of [name, value]   *)
(* with distinct names, and None for a frame that binds nothing.           *)
(***************************************************************************)
Some(v) == [some |-> TRUE, v |-> v]
NoneSeq == [some |-> FALSE, v |-> <<>>]
NoneInt == [some |-> FALSE, v |-> 0]
NoneStr == [some |-> FALSE, v |-> ""]

HasName(items, n) == \E i \in 1..Len(items) : items[i].name = n
ValueOf(items, n) == items[CHOOSE i \in 1..Len(items) : items[i].name = n].value

(***************************************************************************)
(* str.format with the locals unpacked as keywords.  Literal text is       *)
(* copied, doubled braces lose one level, a replacement field {name} is    *)
(* replaced by the value bound to name.  Exceptions: TypeError when the    *)
(* keywords are None, ValueError for a brace with no partner, IndexError   *)
(* for an empty or numeric field (no positional arguments are passed),     *)
(* KeyError for a name that is not bound.  Fields with conversions, format *)
(* specs, attributes or indexes are outside the templates modelled.        *)
(***************************************************************************)
RECURSIVE FormatFrom(_, _)
\* literal text, then the expansion of what follows it
Literal(text, r) == IF r.exc # "none" THEN r ELSE [exc |-> "none", v |-> text \o r.v]

\* the replacement field s[b..j]
Field(s, items, b, j, name) ==
    IF name = "" \/ Head(name) \in Digits THEN [exc |-> "IndexError", v |-> ""]
    ELSE IF ~HasName(items, name) THEN [exc |-> "KeyError", v |-> ""]
    ELSE Literal(SubSeq(s, 1, b - 1) \o ValueOf(items, name),
                 FormatFrom(From(s, j + 1), items))

\* the first brace of s is at b; the next closing brace is at j (0: none)
Brace(s, items, b, j) ==
    IF Ch(s, b + 1) = Ch(s, b)
    THEN Literal(SubSeq(s, 1, b), FormatFrom(From(s, b + 2), items))
    ELSE IF Ch(s, b) = "}" \/ j = 0 THEN [exc |-> "ValueError", v |-> ""]
    ELSE Field(s, items, b, j, SubSeq(s, b + 1, j - 1))

FormatBraces(s, items, B) ==
    IF B = {} THEN [exc |-> "none", v |-> s]
    ELSE Brace(s, items, Min(B), IndexOf(s, "}", Min(B) + 1))

FormatFrom(s, items) ==
    FormatBraces(s, items, {j \in 1..Len(s) : Ch(s, j) \in {"{", "}"}})

StrFormat(template, locals_) ==
    IF ~locals_.some THEN [exc |-> "TypeError", v |-> ""]
    ELSE FormatFrom(template, locals_.v)

(***************************************************************************)
(* textwrap.wrap(text, width) with the defaults: tabs expanded to the next *)
(* multiple of 8 (the column restarts after a newline), every whitespace   *)
(* character turned into a space, the text split into words and runs of    *)
(* spaces, then lines filled greedily, whitespace dropped at the start of  *)
(* every line but the first and at every end.  Words are not split at      *)
(* hyphens here: the texts modelled have none.                             *)
(***************************************************************************)
TabSize == 8

RECURSIVE ExpandTabs(_, _)
\* the column reached after text that starts at column col
Column(text, col, nl) == IF nl = 0 THEN col + Len(text) ELSE Len(text) - nl

ColumnAfter(text, col) ==
    Column(text, col, Max({0} \cup {j \in 1..Len(text) : Ch(text, j) \in {"\n", "\r"}}))

\* the first tab of s is at t (0: none)
ExpandTab(s, col, t) ==
    IF t = 0 THEN s
    ELSE SubSeq(s, 1, t - 1)
             \o Rep(" ", TabSize - (ColumnAfter(SubSeq(s, 1, t - 1), col) % TabSize))
             \o ExpandTabs(From(s, t + 1), 0)

\* str.expandtabs(8) of s, which starts at column col
ExpandTabs(s, col) == ExpandTab(s, col, IndexOf(s, "\t", 1))

Translate(s) ==
    Cat([i \in 1..Len(s) |-> IF Ch(s, i) \in Whitespace THEN " " ELSE Ch(s, i)], 1, Len(s))

\* the length of the run of space (sp) or non-space characters s starts with
RunLen(s, sp) ==
    Min({n \in 1..Len(s) : n = Len(s) \/ ((Ch(s, n + 1) = " ") # sp)})

RECURSIVE Chunks(_)
ChunkOf(s, n) == <<SubSeq(s, 1, n)>> \o Chunks(From(s, n + 1))

Chunks(s) == IF s = "" THEN <<>> ELSE ChunkOf(s, RunLen(s, Head(s) = " "))

IsSpace(chunk) == Head(chunk) = " "

RECURSIVE Take(_, _, _, _)
\* how many leading chunks fit on a line of the given width
Take(chunks, width, n, curLen) ==
    IF n < Len(chunks) /\ curLen + Len(chunks[n + 1]) <= width
    THEN Take(chunks, width, n + 1, curLen + Len(chunks[n + 1]))
    ELSE n

RECURSIVE WrapChunks(_, _, _)
\* the line is complete: whitespace at its end is dropped, an empty line is not kept
EmitLine(cur, rest, width, lines) ==
    WrapChunks(rest, width,
               IF cur # <<>> /\ IsSpace(cur[Len(cur)])
               THEN (IF Len(cur) > 1
                     THEN Append(lines, Join(SubSeq(cur, 1, Len(cur) - 1), ""))
                     ELSE lines)
               ELSE IF cur # <<>> THEN Append(lines, Join(cur, ""))
               ELSE lines)

\* _handle_long_word: a chunk too wide for any line is cut at what is left
CutWord(cur, rest, width, lines, left) ==
    EmitLine(Append(cur, SubSeq(rest[1], 1, left)),
             <<From(rest[1], left + 1)>> \o Tail(rest), width, lines)

LongWord(cur, rest, width, lines) ==
    IF rest # <<>> /\ Len(rest[1]) > width
    THEN CutWord(cur, rest, width, lines, width - Len(Join(cur, "")))
    ELSE EmitLine(cur, rest, width, lines)

\* the first n chunks fit on the line
SplitLine(chunks, width, lines, n) ==
    LongWord(SubSeq(chunks, 1, n), SubSeq(chunks, n + 1, Len(chunks)), width, lines)

FillLine(chunks, width, lines) == SplitLine(chunks, width, lines, Take(chunks, width, 0, 0))

WrapChunks(chunks, width, lines) ==
    IF chunks = <<>> THEN lines
    ELSE FillLine(IF IsSpace(chunks[1]) /\ lines # <<>> THEN Tail(chunks) ELSE chunks,
                  width, lines)

TextWrap(text, width) == WrapChunks(Chunks(Translate(ExpandTabs(text, 0))), width, <<>>)

(***************************************************************************)
(* The files linecache can read.  ExampleLines is a test module written    *)
(* against marbles; ExampleTree is what ast.parse returns for it, one      *)
(* entry per node in document order (the root is node 1): whether the node *)
(* is an ast.stmt, its lineno (0: the node has no lineno attribute) and    *)
(* its children as ast.iter_child_nodes yields them.  A file linecache     *)
(* cannot find (code typed into an interpreter, "<stdin>") has no lines    *)
(* and parses to a Module with no children.                                *)
(***************************************************************************)
N(stmt, lineno, kids) == [stmt |-> stmt, lineno |-> lineno, kids |-> kids]

ExampleFile == "test_example.py"
NoFile == "<stdin>"

ExampleLines == <<
    "from marbles import AnnotatedTestCase\n",
    "\n",
    "\n",
    "class ExampleTestCase(AnnotatedTestCase):\n",
    "\n",
    "    def test_a(self):\n",
    "        x = 5\n",
    "        self.assertEqual(x, 6, ('x is {x}', 'fix x'))\n",
    "        y = x\n",
    "        self.assertTrue(\n",
    "            x > 9,\n",
    "            message='x is {x}',\n",
    "            advice='fix x')\n",
    "        return y\n",
    "\n",
    "    def helper(self, ann):\n",
    "        self.assertTrue(False, ann)\n",
    "\n",
    "    def test_b(self):\n",
    "        for i in (1, 2):\n",
    "            self.helper(('m', 'a'))\n",
    "\n",
    "    def test_c(self):\n",
    "        message, advice, _tmp, n = 'm', 'a', 1, 2\n",
    "        self.assertTrue(False, (message, advice))\n",
    "\n",
    "\n",
    "case = ExampleTestCase()\n",
    "\n",
    "\n",
    "def test_free():\n",
    "    case.assertTrue(False, ('m', 'a'))\n" >>

ExampleTree == <<
    N(FALSE, 0, <<2, 4, 116, 122>>),  \* 1 Module
    N(TRUE, 1, <<3>>),  \* 2 ImportFrom
    N(FALSE, 1, <<>>),  \* 3 alias
    N(TRUE, 4, <<5, 7, 50, 63, 83>>),  \* 4 ClassDef
    N(FALSE, 4, <<6>>),  \* 5 Name
    N(FALSE, 0, <<>>),  \* 6 Load
    N(TRUE, 6, <<8, 10, 14, 27, 32, 47>>),  \* 7 FunctionDef
    N(FALSE, 0, <<9>>),  \* 8 arguments
    N(FALSE, 6, <<>>),  \* 9 arg
    N(TRUE, 7, <<11, 13>>),  \* 10 Assign
    N(FALSE, 7, <<12>>),  \* 11 Name
    N(FALSE, 0, <<>>),  \* 12 Store
    N(FALSE, 7, <<>>),  \* 13 Constant
    N(TRUE, 8, <<15>>),  \* 14 Expr
    N(FALSE, 8, <<16, 20, 22, 23>>),  \* 15 Call
    N(FALSE, 8, <<17, 19>>),  \* 16 Attribute
    N(FALSE, 8, <<18>>),  \* 17 Name
    N(FALSE, 0, <<>>),  \* 18 Load
    N(FALSE, 0, <<>>),  \* 19 Load
    N(FALSE, 8, <<21>>),  \* 20 Name
    N(FALSE, 0, <<>>),  \* 21 Load
    N(FALSE, 8, <<>>),  \* 22 Constant
    N(FALSE, 8, <<24, 25, 26>>),  \* 23 Tuple
    N(FALSE, 8, <<>>),  \* 24 Constant
    N(FALSE, 8, <<>>),  \* 25 Constant
    N(FALSE, 0, <<>>),  \* 26 Load
    N(TRUE, 9, <<28, 30>>),  \* 27 Assign
    N(FALSE, 9, <<29>>),  \* 28 Name
    N(FALSE, 0, <<>>),  \* 29 Store
    N(FALSE, 9, <<31>>),  \* 30 Name
    N(FALSE, 0, <<>>),  \* 31 Load
    N(TRUE, 10, <<33>>),  \* 32 Expr
    N(FALSE, 10, <<34, 38, 43, 45>>),  \* 33 Call
    N(FALSE, 10, <<35, 37>>),  \* 34 Attribute
    N(FALSE, 10, <<36>>),  \* 35 Name
    N(FALSE, 0, <<>>),  \* 36 Load
    N(FALSE, 0, <<>>),  \* 37 Load
    N(FALSE, 11, <<39, 41, 42>>),  \* 38 Compare
    N(FALSE, 11, <<40>>),  \* 39 Name
    N(FALSE, 0, <<>>),  \* 40 Load
    N(FALSE, 0, <<>>),  \* 41 Gt
    N(FALSE, 11, <<>>),  \* 42 Constant
    N(FALSE, 12, <<44>>),  \* 43 keyword
    N(FALSE, 12, <<>>),  \* 44 Constant
    N(FALSE, 13, <<46>>),  \* 45 keyword
    N(FALSE, 13, <<>>),  \* 46 Constant
    N(TRUE, 14, <<48>>),  \* 47 Return
    N(FALSE, 14, <<49>>),  \* 48 Name
    N(FALSE, 0, <<>>),  \* 49 Load
    N(TRUE, 16, <<51, 54>>),  \* 50 FunctionDef
    N(FALSE, 0, <<52, 53>>),  \* 51 arguments
    N(FALSE, 16, <<>>),  \* 52 arg
    N(FALSE, 16, <<>>),  \* 53 arg
    N(TRUE, 17, <<55>>),  \* 54 Expr
    N(FALSE, 17, <<56, 60, 61>>),  \* 55 Call
    N(FALSE, 17, <<57, 59>>),  \* 56 Attribute
    N(FALSE, 17, <<58>>),  \* 57 Name
    N(FALSE, 0, <<>>),  \* 58 Load
    N(FALSE, 0, <<>>),  \* 59 Load
    N(FALSE, 17, <<>>),  \* 60 Constant
    N(FALSE, 17, <<62>>),  \* 61 Name
    N(FALSE, 0, <<>>),  \* 62 Load
    N(TRUE, 19, <<64, 66>>),  \* 63 FunctionDef
    N(FALSE, 0, <<65>>),  \* 64 arguments
    N(FALSE, 19, <<>>),  \* 65 arg
    N(TRUE, 20, <<67, 69, 73>>),  \* 66 For
    N(FALSE, 20, <<68>>),  \* 67 Name
    N(FALSE, 0, <<>>),  \* 68 Store
    N(FALSE, 20, <<70, 71, 72>>),  \* 69 Tuple
    N(FALSE, 20, <<>>),  \* 70 Constant
    N(FALSE, 20, <<>>),  \* 71 Constant
    N(FALSE, 0, <<>>),  \* 72 Load
    N(TRUE, 21, <<74>>),  \* 73 Expr
    N(FALSE, 21, <<75, 79>>),  \* 74 Call
    N(FALSE, 21, <<76, 78>>),  \* 75 Attribute
    N(FALSE, 21, <<77>>),  \* 76 Name
    N(FALSE, 0, <<>>),  \* 77 Load
    N(FALSE, 0, <<>>),  \* 78 Load
    N(FALSE, 21, <<80, 81, 82>>),  \* 79 Tuple
    N(FALSE, 21, <<>>),  \* 80 Constant
    N(FALSE, 21, <<>>),  \* 81 Constant
    N(FALSE, 0, <<>>),  \* 82 Load
    N(TRUE, 23, <<84, 86, 103>>),  \* 83 FunctionDef
    N(FALSE, 0, <<85>>),  \* 84 arguments
    N(FALSE, 23, <<>>),  \* 85 arg
    N(TRUE, 24, <<87, 97>>),  \* 86 Assign
    N(FALSE, 24, <<88, 90, 92, 94, 96>>),  \* 87 Tuple
    N(FALSE, 24, <<89>>),  \* 88 Name
    N(FALSE, 0, <<>>),  \* 89 Store
    N(FALSE, 24, <<91>>),  \* 90 Name
    N(FALSE, 0, <<>>),  \* 91 Store
    N(FALSE, 24, <<93>>),  \* 92 Name
    N(FALSE, 0, <<>>),  \* 93 Store
    N(FALSE, 24, <<95>>),  \* 94 Name
    N(FALSE, 0, <<>>),  \* 95 Store
    N(FALSE, 0, <<>>),  \* 96 Store
    N(FALSE, 24, <<98, 99, 100, 101, 102>>),  \* 97 Tuple
    N(FALSE, 24, <<>>),  \* 98 Constant
    N(FALSE, 24, <<>>),  \* 99 Constant
    N(FALSE, 24, <<>>),  \* 100 Constant
    N(FALSE, 24, <<>>),  \* 101 Constant
    N(FALSE, 0, <<>>),  \* 102 Load
    N(TRUE, 25, <<104>>),  \* 103 Expr
    N(FALSE, 25, <<105, 109, 110>>),  \* 104 Call
    N(FALSE, 25, <<106, 108>>),  \* 105 Attribute
    N(FALSE, 25, <<107>>),  \* 106 Name
    N(FALSE, 0, <<>>),  \* 107 Load
    N(FALSE, 0, <<>>),  \* 108 Load
    N(FALSE, 25, <<>>),  \* 109 Constant
    N(FALSE, 25, <<111, 113, 115>>),  \* 110 Tuple
    N(FALSE, 25, <<112>>),  \* 111 Name
    N(FALSE, 0, <<>>),  \* 112 Load
    N(FALSE, 25, <<114>>),  \* 113 Name
    N(FALSE, 0, <<>>),  \* 114 Load
    N(FALSE, 0, <<>>),  \* 115 Load
    N(TRUE, 28, <<117, 119>>),  \* 116 Assign
    N(FALSE, 28, <<118>>),  \* 117 Name
    N(FALSE, 0, <<>>),  \* 118 Store
    N(FALSE, 28, <<120>>),  \* 119 Call
    N(FALSE, 28, <<121>>),  \* 120 Name
    N(FALSE, 0, <<>>),  \* 121 Load
    N(TRUE, 31, <<123, 124>>),  \* 122 FunctionDef
    N(FALSE, 0, <<>>),  \* 123 arguments
    N(TRUE, 32, <<125>>),  \* 124 Expr
    N(FALSE, 32, <<126, 130, 131>>),  \* 125 Call
    N(FALSE, 32, <<127, 129>>),  \* 126 Attribute
    N(FALSE, 32, <<128>>),  \* 127 Name
    N(FALSE, 0, <<>>),  \* 128 Load
    N(FALSE, 0, <<>>),  \* 129 Load
    N(FALSE, 32, <<>>),  \* 130 Constant
    N(FALSE, 32, <<132, 133, 134>>),  \* 131 Tuple
    N(FALSE, 32, <<>>),  \* 132 Constant
    N(FALSE, 32, <<>>),  \* 133 Constant
    N(FALSE, 0, <<>>)  \* 134 Load
    >>

\* linecache.getlines(filename)
GetLines(filename) ==
    IF filename.some /\ filename.v = ExampleFile THEN ExampleLines ELSE <<>>

\* linecache.getline(filename, lineno)
LineOf(ls, lineno) == IF 1 <= lineno /\ lineno <= Len(ls) THEN ls[lineno] ELSE ""

GetLine(filename, lineno) == LineOf(GetLines(filename), lineno)

\* ast.parse(source)
AstParse(filename) ==
    IF filename.some /\ filename.v = ExampleFile THEN ExampleTree
    ELSE <<N(FALSE, 0, <<>>)>>

RECURSIVE CatSeq(_, _, _)
\* the sequences ss[lo..hi] one after the other
CatSeq(ss, lo, hi) ==
    IF lo > hi THEN <<>>
    ELSE IF lo = hi THEN ss[lo]
    ELSE LET mid == (lo + hi) \div 2
         IN  CatSeq(ss, lo, mid) \o CatSeq(ss, mid + 1, hi)

RECURSIVE WalkLevels(_, _)
WalkLevels(tree, level) ==
    IF level = <<>> THEN <<>>
    ELSE level \o WalkLevels(tree, CatSeq([i \in 1..Len(level) |-> tree[level[i]].kids],
                                          1, Len(level)))

\* ast.walk(tree): breadth first (a deque, popleft, extend with the children)
AstWalk(tree) == WalkLevels(tree, <<1>>)

(***************************************************************************)
(* textwrap.dedent(text): whitespace-only lines become empty, and the      *)
(* longest leading whitespace common to the other lines is removed.        *)
(***************************************************************************)
Indent(line) ==
    SubSeq(line, 1, Max({0} \cup {n \in 1..Len(line) :
                                    \A j \in 1..n : Ch(line, j) \in {" ", "\t"}}))

CommonPrefix(a, b) ==
    SubSeq(a, 1, Max({0} \cup {n \in 1..Len(a) : n <= Len(b) /\ SubSeq(a, 1, n) = SubSeq(b, 1, n)}))

RECURSIVE Margin(_)
Margin(indents) ==
    IF Len(indents) = 1 THEN indents[1]
    ELSE CommonPrefix(indents[1], Margin(Tail(indents)))

NonBlank(l) == l # ""

\* lines that hold only whitespace are normalised to empty lines
Blanked(raw) == [i \in 1..Len(raw) |-> IF Indent(raw[i]) = raw[i] THEN "" ELSE raw[i]]

\* the margin of the lines that are not blank
MarginOf(used) ==
    IF used = <<>> THEN "" ELSE Margin([i \in 1..Len(used) |-> Indent(used[i])])

RemoveMargin(ls, margin) ==
    Join([i \in 1..Len(ls) |->
             IF ls[i] # "" /\ margin # "" THEN From(ls[i], Len(margin) + 1) ELSE ls[i]],
         "\n")

DedentLines(ls) ==
    RemoveMargin(ls, MarginOf(SelectFrom(ls, {i \in 1..Len(ls) : NonBlank(ls[i])})))

Dedent(text) == DedentLines(Blanked(Split(text, "\n")))

\* '{:4d}'.format(i)
Pad4(i) == Rep(" ", 4 - Len(ToString(i))) \o ToString(i)

Leading == 1
Following == 2

(***************************************************************************)
(* AnnotatedAssertionError._get_source(filename, linenumber, leading,      *)
(* following).  The loop over ast.walk keeps the statement seen last and   *)
(* stops at the first node whose lineno is linenumber; with no such node   *)
(* the name `source` is unbound at the dedent (UnboundLocalError).  reads  *)
(* counts the calls: each one reads and parses the file again.             *)
(***************************************************************************)
\* the positions in the walk of the nodes whose lineno is linenumber
Matches(order, tree, linenumber) ==
    {i \in 1..Len(order) :
        /\ linenumber.some
        /\ tree[order[i]].lineno # 0
        /\ tree[order[i]].lineno = linenumber.v}

\* the position in the walk at which the loop breaks, 0 when it runs to the end
MatchAt(order, tree, linenumber) ==
    IF Matches(order, tree, linenumber) = {} THEN 0
    ELSE Min(Matches(order, tree, linenumber))

\* the positions up to m in the walk that hold statements
StatementsTo(order, tree, m) == {i \in 1..m : tree[order[i]].stmt}

\* the node bound to `statement` when the loop breaks at position m (0: unbound)
StatementAt(order, tree, m) ==
    IF StatementsTo(order, tree, m) = {} THEN 0
    ELSE order[Max(StatementsTo(order, tree, m))]

\* the loop over ast.walk: the statement it leaves bound, 0 when it never breaks
WalkTo(order, tree, linenumber) == StatementAt(order, tree, MatchAt(order, tree, linenumber))

\* list(range(a, b))
Range(a, b) == [i \in 1..(IF b > a THEN b - a ELSE 0) |-> a + i - 1]

\* zip(xs, ys) as the number of pairs
ZipLen(xs, ys) == IF Len(xs) <= Len(ys) THEN Len(xs) ELSE Len(ys)

\* [linecache.getline(filename, x) for x in line_range]
SourceLines(filename, line_range) ==
    [i \in 1..Len(line_range) |-> GetLine(filename, line_range[i])]

\* textwrap.dedent(''.join(source)).split('\n')[:-1]
DedentedLines(source) == ButLast(Split(Dedent(Join(source, "")), "\n"))

FormattedLines(line_range, dedented_lines, lineno) ==
    [i \in 1..ZipLen(line_range, dedented_lines) |->
        " " \o (IF line_range[i] = lineno THEN ">" ELSE " ")
            \o " " \o Pad4(line_range[i]) \o " " \o dedented_lines[i]]

\* from the break of the loop to the return
SourceOf(filename, statement, lineno, line_range) ==
    [exc |-> "none",
     v |-> Join(FormattedLines(line_range,
                               DedentedLines(SourceLines(filename, line_range)), lineno),
                "\n"),
     statement |-> statement, line_range |-> line_range]

SourceAt(filename, linenumber, leading, following, tree, statement) ==
    IF statement = 0
    THEN [exc |-> "UnboundLocalError", v |-> "", statement |-> 0, line_range |-> <<>>]
    ELSE SourceOf(filename, statement, tree[statement].lineno,
                  Range(tree[statement].lineno - leading, linenumber.v + following))

SourceIn(filename, linenumber, leading, following, tree) ==
    SourceAt(filename, linenumber, leading, following, tree,
             WalkTo(AstWalk(tree), tree, linenumber))

GetSource(filename, linenumber, leading, following) ==
    SourceIn(filename, linenumber, leading, following, AstParse(filename))

(***************************************************************************)
(* Python values that reach the wrapper: an int, a str, a sequence of      *)
(* strings (a tuple or list), a reference to a dict on the heap, None.     *)
(* A dict is a sequence of [key, value] in insertion order.                *)
(***************************************************************************)
IntV(n) == [kind |-> "int", i |-> n, s |-> "", items |-> <<>>, ref |-> 0]
StrV(s) == [kind |-> "str", i |-> 0, s |-> s, items |-> <<>>, ref |-> 0]
SeqV(items) == [kind |-> "seq", i |-> 0, s |-> "", items |-> items, ref |-> 0]
DictV(ref) == [kind |-> "dict", i |-> 0, s |-> "", items |-> <<>>, ref |-> ref]
NoneV == [kind |-> "none", i |-> 0, s |-> "", items |-> <<>>, ref |-> 0]

KV(k, v) == [key |-> k, value |-> v]
Keys(d) == {d[i].key : i \in 1..Len(d)}
HasKey(d, k) == k \in Keys(d)
Get(d, k) == d[CHOOSE i \in 1..Len(d) : d[i].key = k].value
\* d[k] = v on a dict: the value is replaced in place, a new key goes last
Put(d, k, v) ==
    IF HasKey(d, k) THEN [i \in 1..Len(d) |-> IF d[i].key = k THEN KV(k, v) ELSE d[i]]
    ELSE Append(d, KV(k, v))
\* dict equality: the same keys with the same values, in any order
DictEq(a, b) == Keys(a) = Keys(b) /\ \A k \in Keys(a) : Get(a, k) = Get(b, k)

REQUIRED_KEYS == <<"message", "advice">>
IGNORE_LOCALS == <<"message", "advice", "self">>
TestPrefix == "test_"
WrapMessage == 74
WrapAdvice == 64

(***************************************************************************)
(* AnnotatedTestCase._coerce_annotation_dict: a Sequence is zipped with    *)
(* REQUIRED_KEYS into a new dict, a Mapping is returned as it is (the      *)
(* same object), anything else raises AnnotationError.  A str is a         *)
(* Sequence too: its items are its characters.                             *)
(***************************************************************************)
\* zip pairing the keys with the items from the other end
ZipKeysReversed(keys, items) ==
    [i \in 1..ZipLen(keys, items) |-> KV(keys[i], items[ZipLen(keys, items) + 1 - i])]

ZipKeys(keys, items) ==
    [i \in 1..ZipLen(keys, items) |-> KV(keys[i], items[i])]

StrItems(s) == [i \in 1..Len(s) |-> Ch(s, i)]

\* [exc, new: a dict was created, ref: the dict returned (the next free heap
\*  slot when new), d: the contents of a new dict]
CoerceAnnotationDict(annotation, heap) ==
    CASE annotation.kind = "seq" ->
             [exc |-> "none", new |-> TRUE, ref |-> Len(heap) + 1,
              d |-> ZipKeys(REQUIRED_KEYS, annotation.items)]
      [] annotation.kind = "str" ->
             [exc |-> "none", new |-> TRUE, ref |-> Len(heap) + 1,
              d |-> ZipKeys(REQUIRED_KEYS, StrItems(annotation.s))]
      [] annotation.kind = "dict" ->
             [exc |-> "none", new |-> FALSE, ref |-> annotation.ref, d |-> <<>>]
      [] OTHER ->
             [exc |-> "AnnotationError", new |-> FALSE, ref |-> 0, d |-> <<>>]

\* _validate_annotation reporting every required key whenever one is missing
MissingKeysAll(d) ==
    IF {"message", "advice"} \subseteq Keys(d) THEN {} ELSE {"message", "advice"}

\* AnnotatedTestCase._validate_annotation: the set of missing required keys
MissingKeys(d) == {REQUIRED_KEYS[i] : i \in 1..Len(REQUIRED_KEYS)} \ Keys(d)

(***************************************************************************)
(* The assertion methods of unittest.TestCase the wrapper forwards to:     *)
(* assertTrue(expr, msg=None) and assertEqual(first, second, msg=None).    *)
(***************************************************************************)
Arity(meth) == IF meth = "assertEqual" THEN 2 ELSE 1

\* binding attr(*args, msg=annotation, **kwargs) to the method's parameters:
\* a positional argument in the msg slot collides with the msg keyword
BindError(meth, args, kwargs) ==
    \/ Len(args) # Arity(meth)
    \/ kwargs # <<>>

Truthy(v) ==
    CASE v.kind = "int" -> v.i # 0
      [] v.kind = "str" -> v.s # ""
      [] v.kind = "seq" -> v.items # <<>>
      [] v.kind = "dict" -> TRUE
      [] OTHER -> FALSE

Repr(v) == IF v.kind = "int" THEN ToString(v.i) ELSE "'" \o v.s \o "'"

AssertionFails(meth, args) ==
    IF meth = "assertEqual" THEN args[1] # args[2] ELSE ~Truthy(args[1])

StandardMsg(meth, args) ==
    IF meth = "assertEqual" THEN Repr(args[1]) \o " != " \o Repr(args[2])
    ELSE Repr(args[1]) \o " is not true"

(***************************************************************************)
(* The wrapper __getattribute__ returns for a callable attribute whose     *)
(* name starts with 'assert', up to the forwarded call.                    *)
(* [exc, missing, forwarded, args, kwargs, ref, heap]                      *)
(***************************************************************************)
KwHas(kwargs, k) == \E i \in 1..Len(kwargs) : kwargs[i].key = k
KwPop(kwargs, ks) == SelectFrom(kwargs, {i \in 1..Len(kwargs) : kwargs[i].key \notin ks})

\* set(kwargs).intersection(required_keys)
ProvidedKeys(kwargs) == Keys(kwargs) \cap {REQUIRED_KEYS[i] : i \in 1..Len(REQUIRED_KEYS)}

\* {key: kwargs.pop(key) for key in provided_keys}, a new dict
Bundle(kwargs, heap) ==
    [exc |-> "none", new |-> TRUE, ref |-> Len(heap) + 1,
     d |-> [i \in 1..Len(kwargs) |-> KV(kwargs[i].key, kwargs[i].value.s)]]

Stop(exc, missing, heap) ==
    [exc |-> exc, missing |-> missing, forwarded |-> FALSE, args |-> <<>>,
     kwargs |-> <<>>, ref |-> 0, heap |-> heap]

\* _validate_annotation(annotation), then attr(*args, msg=annotation, **kwargs)
Validate(args, kwargs, ref, heap) ==
    IF MissingKeys(heap[ref]) # {} THEN Stop("AnnotationError", MissingKeys(heap[ref]), heap)
    ELSE [exc |-> "none", missing |-> {}, forwarded |-> TRUE, args |-> args,
          kwargs |-> kwargs, ref |-> ref, heap |-> heap]

\* co: what _coerce_annotation_dict returned or raised
Coerced(args, kwargs, co, heap) ==
    IF co.exc # "none" THEN Stop(co.exc, {}, heap)
    ELSE Validate(args, kwargs, co.ref, IF co.new THEN Append(heap, co.d) ELSE heap)

Wrapper(args, kwargs, heap) ==
    IF ProvidedKeys(kwargs) # {}
    THEN Coerced(args, KwPop(kwargs, ProvidedKeys(kwargs)),
                 Bundle(SelectFrom(kwargs, {i \in 1..Len(kwargs) :
                                               kwargs[i].key \in ProvidedKeys(kwargs)}),
                        heap),
                 heap)
    ELSE IF KwHas(kwargs, "msg")
    THEN Coerced(args, KwPop(kwargs, {"msg"}),
                 CoerceAnnotationDict(Get(kwargs, "msg"), heap), heap)
    ELSE IF args = <<>> THEN Stop("IndexError", {}, heap)
    ELSE Coerced(ButLast(args), kwargs, CoerceAnnotationDict(args[Len(args)], heap), heap)

(***************************************************************************)
(* The call stack.  A frame is [name, locals, filename, lineno], locals a  *)
(* sequence of [name, value] with value the repr StackSummary.extract      *)
(* keeps.  Stacks are listed innermost frame first, as walk_stack yields   *)
(* them.                                                                   *)
(***************************************************************************)
Frame(name, locals_, filename, lineno) ==
    [name |-> name, locals |-> locals_, filename |-> filename, lineno |-> lineno]
NV(n, v) == [name |-> n, value |-> v]

MarblesFile == "marbles.py"
\* a frame of marbles or unittest between the test and _get_stack
Inner(name) == Frame(name, <<NV("self", "AnnotatedAssertionError()")>>, MarblesFile, 1)

\* FrameSummary.locals: the reprs of the frame's locals, None when it has none
SummaryLocals(frame) == IF frame.locals = <<>> THEN NoneSeq ELSE Some(frame.locals)

(***************************************************************************)
(* An AnnotatedAssertionError: the attributes __init__ sets, plus two      *)
(* counters that are not attributes: how often _get_stack and _get_source  *)
(* ran for it after __init__ returned.                                     *)
(***************************************************************************)
NewError(ref, msg) ==
    [_annotation |-> ref, _msg |-> msg, _locals |-> NoneSeq, _filename |-> NoneStr,
     _linenumber |-> NoneInt, _assert_expr |-> NoneStr, _formatted_msg |-> NoneStr,
     walks |-> 0, reads |-> 0]

\* `not x` for the optional attributes
NotSeq(o) == ~o.some \/ o.v = <<>>
NotStr(o) == ~o.some \/ o.v = ""
NotInt(o) == ~o.some \/ o.v = 0

Raise(exc, e) == [exc |-> exc, e |-> e]

(***************************************************************************)
(* AnnotatedAssertionError._get_stack, called from a property whose frame  *)
(* is the first one walked: the first frame whose name starts with 'test_' *)
(* gives _locals (a copy), _filename and _linenumber; with no such frame   *)
(* the three stay as they were.                                            *)
(***************************************************************************)
TestLevels(stack) == {i \in 1..Len(stack) : StartsWith(stack[i].name, TestPrefix)}

\* the first level whose name starts with 'test_', 0 when there is none
TestLevel(stack) == IF TestLevels(stack) = {} THEN 0 ELSE Min(TestLevels(stack))

\* the body of the loop at level i
GetStackAt(e, stack, i) ==
    IF i = 0 THEN Raise("none", e)
    ELSE IF ~SummaryLocals(stack[i]).some THEN Raise("AttributeError", e)
    ELSE Raise("none", [e EXCEPT !._locals = SummaryLocals(stack[i]),
                                 !._filename = Some(stack[i].filename),
                                 !._linenumber = Some(stack[i].lineno)])

GetStack(e, stack) == GetStackAt([e EXCEPT !.walks = @ + 1], stack, TestLevel(stack))

\* the properties locals, filename, linenumber: [exc, e]; the value read is
\* the attribute of the returned e
PropLocals(e, stack) ==
    IF NotSeq(e._locals) THEN GetStack(e, <<Inner("locals")>> \o stack) ELSE Raise("none", e)
PropFilename(e, stack) ==
    IF NotStr(e._filename) THEN GetStack(e, <<Inner("filename")>> \o stack)
    ELSE Raise("none", e)
PropLinenumber(e, stack) ==
    IF NotInt(e._linenumber) THEN GetStack(e, <<Inner("linenumber")>> \o stack)
    ELSE Raise("none", e)

\* setattr(self, '_assert_expr', assert_expr), src what _get_source returned or raised
StoreAssertExpr(e, src) ==
    IF src.exc # "none" THEN Raise(src.exc, [e EXCEPT !.reads = @ + 1])
    ELSE Raise("none", [e EXCEPT !._assert_expr = Some(src.v), !.reads = @ + 1])

\* l: what self.linenumber returned or raised
AssertExprAt(l) ==
    IF l.exc # "none" THEN l
    ELSE StoreAssertExpr(l.e, GetSource(l.e._filename, l.e._linenumber, Leading, Following))

\* f: what self.filename returned or raised
AssertExprIn(f, stack) ==
    IF f.exc # "none" THEN f ELSE AssertExprAt(PropLinenumber(f.e, stack))

\* the property assert_expr
PropAssertExpr(e, stack) ==
    IF ~NotStr(e._assert_expr) THEN Raise("none", e)
    ELSE AssertExprIn(PropFilename(e, <<Inner("assert_expr")>> \o stack),
                      <<Inner("assert_expr")>> \o stack)

\* _format_locals without the test for a leading underscore
ShownUnderscore(l) == \A i \in 1..Len(IGNORE_LOCALS) : l.name # IGNORE_LOCALS[i]

Shown(l) ==
    /\ \A i \in 1..Len(IGNORE_LOCALS) : l.name # IGNORE_LOCALS[i]
    /\ ~StartsWith(l.name, "_")

\* '\n\t'.join('{0}={1}'.format(k, v) for k, v in locals_.items())
JoinLocals(shown) ==
    Join([i \in 1..Len(shown) |-> shown[i].name \o "=" \o shown[i].value], "\n\t")

\* AnnotatedAssertionError._format_locals, given the value of self.locals
FormatLocals(locals_) ==
    JoinLocals(SelectFrom(locals_, {i \in 1..Len(locals_) : Shown(locals_[i])}))

\* _META_FORMAT_STRING.format(...)
MetaFormat(standardMsg, message, assert_expr, locals_, advice) ==
    standardMsg \o "\n" \o message \o "\n\nSource:\n" \o assert_expr
        \o "\nLocals:\n\t" \o locals_ \o "\nAdvice:\n\t" \o advice \o "\n    "

Formatted(exc, e, v) == [exc |-> exc, e |-> e, v |-> v]

\* l: what self.locals returned or raised inside _format_locals
FormatMsgLocals(msg, d, assert_expr, l) ==
    IF l.exc # "none" THEN Formatted(l.exc, l.e, "")
    ELSE IF ~l.e._locals.some THEN Formatted("AttributeError", l.e, "")
    ELSE Formatted("none", l.e,
                   MetaFormat(msg, Get(d, "message"), assert_expr,
                              FormatLocals(l.e._locals.v), Get(d, "advice")))

\* a: what self.assert_expr returned or raised
FormatMsgSource(msg, d, a, stack) ==
    IF a.exc # "none" THEN Formatted(a.exc, a.e, "")
    ELSE FormatMsgLocals(msg, d, a.e._assert_expr.v,
                         PropLocals(a.e, <<Inner("_format_locals")>> \o stack))

\* AnnotatedAssertionError._format_msg: [exc, e, v]
FormatMsg(e, stack, heap) ==
    FormatMsgSource(e._msg, heap[e._annotation],
                    PropAssertExpr(e, <<Inner("_format_msg")>> \o stack),
                    <<Inner("_format_msg")>> \o stack)

\* setattr(self, '_formatted_msg', formatted_msg)
StoreFormattedMsg(m) ==
    IF m.exc # "none" THEN Raise(m.exc, m.e)
    ELSE Raise("none", [m.e EXCEPT !._formatted_msg = Some(m.v)])

\* the property formattedMsg
PropFormattedMsg(e, stack, heap) ==
    IF ~NotStr(e._formatted_msg) THEN Raise("none", e)
    ELSE StoreFormattedMsg(FormatMsg(e, <<Inner("formattedMsg")>> \o stack, heap))

(***************************************************************************)
(* AnnotatedAssertionError._format_annotation: both templates are expanded *)
(* against self.locals, wrapped, and stored back into the annotation dict  *)
(* itself.  [exc, e, heap]                                                 *)
(***************************************************************************)
Annotated(exc, e, heap) == [exc |-> exc, e |-> e, heap |-> heap]

\* the two assignments into self._annotation
StoreAnnotation(e, heap, d, message, advice) ==
    Annotated("none", e,
              [heap EXCEPT ![e._annotation] =
                  Put(Put(d, "message", Join(TextWrap(message, WrapMessage), "\n")),
                      "advice", Join(TextWrap(advice, WrapAdvice), "\n\t"))])

\* fa: what the advice template expanded to
AdviceFormatted(e, heap, d, message, fa) ==
    IF fa.exc # "none" THEN Annotated(fa.exc, e, heap)
    ELSE StoreAnnotation(e, heap, d, message, fa.v)

\* l: what the second self.locals returned or raised
FormatAdvice(l, heap, d, message) ==
    IF l.exc # "none" THEN Annotated(l.exc, l.e, heap)
    ELSE AdviceFormatted(l.e, heap, d, message, StrFormat(Get(d, "advice"), l.e._locals))

\* fm: what the message template expanded to
MessageFormatted(e, stack, heap, d, fm) ==
    IF fm.exc # "none" THEN Annotated(fm.exc, e, heap)
    ELSE FormatAdvice(PropLocals(e, stack), heap, d, fm.v)

\* l: what the first self.locals returned or raised
FormatMessage(l, stack, heap, d) ==
    IF l.exc # "none" THEN Annotated(l.exc, l.e, heap)
    ELSE MessageFormatted(l.e, stack, heap, d, StrFormat(Get(d, "message"), l.e._locals))

FormatAnnotation(e, stack, heap) ==
    FormatMessage(PropLocals(e, <<Inner("_format_annotation")>> \o stack),
                  <<Inner("_format_annotation")>> \o stack, heap, heap[e._annotation])

(***************************************************************************)
(* AnnotatedAssertionError.__init__((annotation, standardMsg)), raised by  *)
(* the assertion method meth called through the wrapper.  [exc, e, heap]:  *)
(* exc "none" means the failure was constructed.  The counters start when  *)
(* __init__ returns.                                                       *)
(***************************************************************************)
\* super().__init__(self.formattedMsg), m what self.formattedMsg returned or raised
InitSuper(m, heap) == Annotated(m.exc, [m.e EXCEPT !.walks = 0, !.reads = 0], heap)

\* a: what self._format_annotation() did
InitFormatted(a, stack) ==
    IF a.exc # "none" THEN a
    ELSE InitSuper(PropFormattedMsg(a.e, stack, a.heap), a.heap)

ErrorInitFrom(ref, msg, stack, heap) ==
    InitFormatted(FormatAnnotation(NewError(ref, msg), stack, heap), stack)

ErrorInit(ref, msg, meth, userStack, heap) ==
    ErrorInitFrom(ref, msg, <<Inner("__init__"), Inner(meth), Inner("wrapper")>> \o userStack,
                  heap)

(***************************************************************************)
(* The inputs: the annotation dicts the test module defines before any     *)
(* test runs, the ways a test calls a wrapped assertion, and the stacks    *)
(* the call is made from.                                                  *)
(***************************************************************************)
MsgRef == "x is {x}"
MsgPlain == "the result was wrong"
MsgEsc == "bind {{x}} first"
MsgLong == "the value of x, which is {x}, is not one of the values that the upstream job may produce"
AdvPlain == "fix x"
AdvLong == "ask the owner of the upstream job whether {x} is a value it\tmay now produce"

CallerDicts ==
    { <<KV("message", MsgRef), KV("advice", AdvLong)>>,
      <<KV("advice", AdvPlain), KV("message", MsgEsc)>>,
      <<KV("message", MsgPlain)>> }

Tuples ==
    { <<MsgRef, AdvPlain>>, <<MsgLong, AdvLong>>, <<MsgPlain, AdvPlain>>,
      <<MsgPlain, AdvPlain, "ignored">>, <<MsgPlain>>, <<>> }

KwBundles ==
    { <<KV("message", StrV(MsgRef)), KV("advice", StrV(AdvPlain))>>,
      <<KV("advice", StrV(AdvLong)), KV("message", StrV(MsgPlain))>>,
      <<KV("message", StrV(MsgPlain))>>,
      <<KV("advice", StrV(AdvPlain))>> }

\* the annotations a call can pass in the last position
Annotations(heap) ==
    {SeqV(t) : t \in Tuples} \cup {StrV("ok"), NoneV}
        \cup {DictV(r) : r \in 1..Len(heap)}

Call(meth, args, kwargs) == [meth |-> meth, args |-> args, kwargs |-> kwargs]

\* calls that pass a dict the test module or an earlier failure holds
SharedCalls(heap) ==
    {Call("assertTrue", <<IntV(0), DictV(r)>>, <<>>) : r \in 1..Len(heap)}
    \cup {Call("assertEqual", <<IntV(5), IntV(6)>>, <<KV("msg", DictV(r))>>) :
            r \in 1..Len(heap)}

FirstCalls(heap) ==
    \* assertTrue(0, annotation)
    {Call("assertTrue", <<IntV(0), a>>, <<>>) : a \in Annotations(heap)}
    \cup SharedCalls(heap)
    \cup { \* an assertion that passes, assertEqual, msg=annotation
           Call("assertTrue", <<IntV(1), SeqV(<<MsgRef, AdvPlain>>)>>, <<>>),
           Call("assertEqual", <<IntV(5), IntV(6), SeqV(<<MsgRef, AdvPlain>>)>>, <<>>),
           Call("assertTrue", <<IntV(0)>>, <<KV("msg", SeqV(<<MsgRef, AdvPlain>>))>>),
           \* no annotation, and no argument at all
           Call("assertTrue", <<IntV(0)>>, <<>>),
           Call("assertTrue", <<>>, <<>>) }
    \* assertX(..., message=..., advice=...)
    \cup {Call("assertTrue", <<IntV(0)>>, k) : k \in KwBundles}
    \cup {Call("assertEqual", <<IntV(5), IntV(5)>>, k) : k \in KwBundles}
    \* assertX(..., annotation, message=..., advice=...)
    \cup {Call("assertTrue", <<IntV(0), SeqV(<<MsgPlain, AdvPlain>>)>>, k) : k \in KwBundles}
    \cup {Call("assertEqual", <<IntV(5), IntV(6), DictV(1)>>, k) : k \in KwBundles}

\* A call with an annotation of its own acts on no state an earlier call left:
\* after the first call of a run only the calls that share a dict are explored.
Calls(heap, n) == IF n = 0 THEN FirstCalls(heap) ELSE SharedCalls(heap)

Self(test) == NV("self", "<test_example.ExampleTestCase testMethod=" \o test \o ">")
\* unittest's TestCase.run, which calls the test method
Runner == Frame("run", <<NV("self", "<test_example.ExampleTestCase>")>>, "case.py", 623)

UserStacks ==
    { <<Frame("test_a", <<Self("test_a"), NV("x", "5")>>, ExampleFile, 8), Runner>>,
      <<Frame("test_a", <<Self("test_a"), NV("x", "5"), NV("y", "5")>>, ExampleFile, 10),
        Runner>>,
      \* an interpreter that reports the last line of a call that spans lines
      <<Frame("test_a", <<Self("test_a"), NV("x", "5"), NV("y", "5")>>, ExampleFile, 13),
        Runner>>,
      <<Frame("helper", <<Self("test_b"), NV("ann", "('m', 'a')")>>, ExampleFile, 17),
        Frame("test_b", <<Self("test_b"), NV("i", "1"), NV("x", "7")>>, ExampleFile, 21),
        Runner>>,
      \* helper called from setUp: no frame of a test method
      <<Frame("helper", <<Self("test_b"), NV("ann", "('m', 'a')")>>, ExampleFile, 17),
        Frame("setUp", <<Self("test_b")>>, ExampleFile, 21), Runner>>,
      <<Frame("test_c", <<Self("test_c"), NV("message", "'m'"), NV("advice", "'a'"),
                          NV("_tmp", "1"), NV("n", "2")>>, ExampleFile, 25), Runner>>,
      \* a test function that binds nothing
      <<Frame("test_free", <<>>, ExampleFile, 32)>>,
      \* a test typed into the interpreter: linecache has no lines for it
      <<Frame("test_x", <<Self("test_x"), NV("x", "5")>>, NoFile, 3), Runner>> }

\* the stacks a constructed failure is read from, after the raising stack unwound
ReaderStacks ==
    { <<Frame("test_report", <<Self("test_report"), NV("x", "8")>>, ExampleFile, 9), Runner>>,
      <<Frame("addFailure", <<NV("self", "<unittest.TextTestResult>")>>, "result.py", 17)>> }

Properties == {"locals", "filename", "linenumber", "assert_expr", "formattedMsg"}

MaxCalls == 2
MaxReads == 2

(***************************************************************************)
(* State.  heap: the dicts alive, by reference; orig: for a dict the test  *)
(* module defined, its contents as written (None for a dict the wrapper    *)
(* made); errors: the failures constructed so far; built: each one as      *)
(* __init__ left it; last: the latest wrapped call and how it ended (its   *)
(* stack is kept when the assertion failed).                               *)
(***************************************************************************)
VARIABLES heap, orig, errors, built, last, ncalls, nreads

vars == <<heap, orig, errors, built, last, ncalls, nreads>>

NoCall ==
    [op |-> "none", call |-> Call("", <<>>, <<>>), stack |-> <<>>, exc |-> "none",
     missing |-> {}, forwarded |-> FALSE, fargs |-> <<>>, delivered |-> <<>>,
     invoked |-> FALSE, failed |-> FALSE, ref |-> 0, obj |-> NewError(0, "")]

Init ==
    /\ \E d \in CallerDicts : heap = <<d>> /\ orig = <<Some(d)>>
    /\ errors = <<>>
    /\ built = <<>>
    /\ last = NoCall
    /\ ncalls = 0
    /\ nreads = 0

(***************************************************************************)
(* A test calls a wrapped assertion: the wrapper, the assertion method it  *)
(* forwards to and, when the assertion fails, the construction of the      *)
(* failure (failureException(_formatMessage(msg, standardMsg))).           *)
(***************************************************************************)
Outcome(c, w) ==
    [NoCall EXCEPT !.op = "call", !.call = c, !.missing = w.missing,
                   !.forwarded = w.forwarded, !.fargs = w.args, !.ref = w.ref,
                   !.delivered = IF w.forwarded THEN w.heap[w.ref] ELSE <<>>]

\* a dict the wrapper made is unreachable unless a failure holds it
Kept(constructed, h, n) == IF constructed \/ Len(h) = n THEN h ELSE SubSeq(h, 1, n)

\* the assertion failed; init: what the construction of the failure did
Failed(c, stack, w, init) ==
    /\ last' = [Outcome(c, w) EXCEPT
                   !.invoked = TRUE, !.failed = TRUE, !.stack = stack,
                   !.exc = IF init.exc = "none" THEN "AnnotatedAssertionError" ELSE init.exc,
                   !.obj = init.e]
    /\ heap' = Kept(init.exc = "none", init.heap, Len(heap))
    /\ orig' = IF Len(heap') > Len(orig) THEN Append(orig, NoneSeq) ELSE orig
    /\ errors' = IF init.exc = "none" THEN Append(errors, init.e) ELSE errors
    /\ built' = IF init.exc = "none" THEN Append(built, init.e) ELSE built

\* w: what the wrapper did
Wrapped(c, stack, w) ==
    IF ~w.forwarded
    THEN /\ last' = [Outcome(c, w) EXCEPT !.exc = w.exc]
         /\ UNCHANGED <<heap, orig, errors, built>>
    ELSE IF BindError(c.meth, w.args, w.kwargs)
    THEN /\ last' = [Outcome(c, w) EXCEPT !.exc = "TypeError"]
         /\ UNCHANGED <<heap, orig, errors, built>>
    ELSE IF ~AssertionFails(c.meth, w.args)
    THEN /\ last' = [Outcome(c, w) EXCEPT !.invoked = TRUE]
         /\ UNCHANGED <<heap, orig, errors, built>>
    ELSE Failed(c, stack, w,
                ErrorInit(w.ref, StandardMsg(c.meth, w.args), c.meth, stack, w.heap))

CallAssertion(c, stack) ==
    /\ ncalls < MaxCalls
    /\ ncalls' = ncalls + 1
    /\ UNCHANGED nreads
    /\ Wrapped(c, stack, Wrapper(c.args, c.kwargs, heap))

CallStep == \E c \in Calls(heap, ncalls), stack \in UserStacks : CallAssertion(c, stack)

(***************************************************************************)
(* Code that holds a constructed failure reads one of its properties.      *)
(***************************************************************************)
Read(e, prop, stack, h) ==
    CASE prop = "locals" -> PropLocals(e, stack)
      [] prop = "filename" -> PropFilename(e, stack)
      [] prop = "linenumber" -> PropLinenumber(e, stack)
      [] prop = "assert_expr" -> PropAssertExpr(e, stack)
      [] OTHER -> PropFormattedMsg(e, stack, h)

ReadProperty(i, prop, stack) ==
    /\ nreads < MaxReads
    /\ nreads' = nreads + 1
    /\ errors' = [errors EXCEPT ![i] = Read(errors[i], prop, stack, heap).e]
    /\ UNCHANGED <<heap, orig, built, last, ncalls>>

ReadStep ==
    \E i \in 1..Len(errors), prop \in Properties, stack \in ReaderStacks :
        ReadProperty(i, prop, stack)

Next == CallStep \/ ReadStep

Spec == Init /\ [][Next]_vars

(***************************************************************************)
(* Properties.  Each is stated over what a run leaves behind: the latest   *)
(* wrapped call (last), the failures constructed (errors, built) and the   *)
(* annotation dicts (heap, orig).                                          *)
(***************************************************************************)
RequiredSet == {"message", "advice"}
FormatErrors == {"TypeError", "ValueError", "IndexError", "KeyError"}

\* the message=/advice= keywords of a call
KeywordKeys(c) == {k \in RequiredSet : KwHas(c.kwargs, k)}

\* the annotation of a call that passes no message=/advice= keyword
HasAnnotationArg(c) == KwHas(c.kwargs, "msg") \/ c.args # <<>>
AnnotationArg(c) ==
    IF KwHas(c.kwargs, "msg") THEN Get(c.kwargs, "msg") ELSE c.args[Len(c.args)]

\* a call whose annotation is a mapping, a sequence or a keyword bundle
Normalizable(c) ==
    \/ KeywordKeys(c) # {}
    \/ HasAnnotationArg(c) /\ AnnotationArg(c).kind \in {"seq", "str", "dict"}

FirstKeys(n) == {REQUIRED_KEYS[i] : i \in 1..(IF n < 2 THEN n ELSE 2)}

\* the keys of the normalized annotation of a normalizable call
NormalizedKeys(c) ==
    IF KeywordKeys(c) # {} THEN KeywordKeys(c)
    ELSE CASE AnnotationArg(c).kind = "seq" -> FirstKeys(Len(AnnotationArg(c).items))
           [] AnnotationArg(c).kind = "str" -> FirstKeys(Len(AnnotationArg(c).s))
           [] OTHER -> Keys(heap[AnnotationArg(c).ref])

\* C1: a wrapped call whose normalized annotation (from a mapping, a sequence
\* or the message=/advice= bundle) lacks a required key raises AnnotationError
\* naming exactly the missing keys, and the underlying assertion is not invoked.
C1_MissingKeysRejected ==
    (/\ last.op = "call"
     /\ Normalizable(last.call)
     /\ NormalizedKeys(last.call) # RequiredSet)
    => (/\ last.exc = "AnnotationError"
        /\ last.missing = RequiredSet \ NormalizedKeys(last.call)
        /\ ~last.forwarded
        /\ ~last.invoked)

\* a call with a one-element tuple was rejected for the missing advice
C1_Witness ==
    /\ last.op = "call"
    /\ last.call.kwargs = <<>>
    /\ last.call.args # <<>>
    /\ AnnotationArg(last.call) = SeqV(<<MsgPlain>>)
    /\ last.exc = "AnnotationError"
    /\ last.missing = {"advice"}

\* the mapping {message: m, advice: a}
Mapping(m, a) == <<KV("message", m), KV("advice", a)>>

\* a call that passes both a trailing positional annotation and keywords
BothForms(c) == KeywordKeys(c) # {} /\ Len(c.args) = Arity(c.meth) + 1

\* C2: when a call supplies both a trailing positional annotation and the
\* message=/advice= keywords, the keyword form wins: the underlying assertion
\* receives the mapping built from the keywords as its msg, and the positional
\* annotation is not also delivered to it.
C2_KeywordFormWins ==
    (/\ last.op = "call"
     /\ BothForms(last.call)
     /\ KeywordKeys(last.call) = RequiredSet)
    => (/\ last.forwarded
        /\ DictEq(last.delivered, Mapping(Get(last.call.kwargs, "message").s,
                                          Get(last.call.kwargs, "advice").s))
        /\ last.fargs = SubSeq(last.call.args, 1, Arity(last.call.meth))
        /\ last.exc # "TypeError")

(***************************************************************************)
(* The syntax tree read as a tree, and an excerpt read back line by line.  *)
(***************************************************************************)
Parent(tree, n) ==
    CHOOSE p \in 1..Len(tree) : \E k \in 1..Len(tree[p].kids) : tree[p].kids[k] = n

RECURSIVE Enclosing(_, _)
\* the statement that encloses node n: n itself or its nearest ancestor statement
Enclosing(tree, n) ==
    IF tree[n].stmt THEN n
    ELSE IF n = 1 THEN 0
    ELSE Enclosing(tree, Parent(tree, n))

\* the first node found with the failure's line number, and its statement's line
FirstNode(e) ==
    AstWalk(AstParse(e._filename))[MatchAt(AstWalk(AstParse(e._filename)),
                                           AstParse(e._filename), e._linenumber)]
EnclosingLine(e) ==
    AstParse(e._filename)[Enclosing(AstParse(e._filename), FirstNode(e))].lineno

ExcerptLines(e) == IF e._assert_expr.v = "" THEN <<>> ELSE Split(e._assert_expr.v, "\n")
\* the line number and the marker of an excerpt line
NumberOf(line) == SubSeq(line, 4, 7)
MarkerOf(line) == Ch(line, 2)
Marked(e) == {NumberOf(ExcerptLines(e)[k]) :
                 k \in {k \in 1..Len(ExcerptLines(e)) : MarkerOf(ExcerptLines(e)[k]) = ">"}}

\* the excerpt marks its statement's first line, the enclosing statement's
UsesEnclosing(e) == Marked(e) = {Pad4(EnclosingLine(e))}

\* C3: for a statement that starts at line S and a failing line L, the excerpt
\* holds every line from S-1 to L+2 with its own number, '>' on S only.
C3_ExcerptRange ==
    \A i \in 1..Len(errors) :
        (/\ UsesEnclosing(errors[i])
         /\ EnclosingLine(errors[i]) >= 2
         /\ errors[i]._linenumber.v + Following <= Len(GetLines(errors[i]._filename)))
        => (/\ Len(ExcerptLines(errors[i]))
                   = errors[i]._linenumber.v + Following - (EnclosingLine(errors[i]) - Leading) + 1
            /\ \A k \in 1..Len(ExcerptLines(errors[i])) :
                   /\ NumberOf(ExcerptLines(errors[i])[k])
                          = Pad4(EnclosingLine(errors[i]) - Leading + k - 1)
                   /\ (MarkerOf(ExcerptLines(errors[i])[k]) = ">")
                          <=> (k = Leading + 1))

\* C4: constructing a failure leaves every annotation object visible to the
\* caller unchanged: a dict the test module defined keeps the contents it
\* was written with, so a second failure expands the original templates.
C4_AnnotationsUnchanged ==
    \A r \in 1..Len(orig) : orig[r].some => heap[r] = orig[r].v

\* C5: when source reconstruction cannot proceed (no node of the tree has the
\* failing line), the failing assertion still produces an
\* AnnotatedAssertionError: no other exception replaces it.
C5_ReconstructionNotMasking ==
    (/\ last.op = "call"
     /\ last.failed
     /\ last.obj._linenumber.some
     /\ Matches(AstWalk(AstParse(last.obj._filename)), AstParse(last.obj._filename),
                last.obj._linenumber) = {}
     /\ last.exc \notin FormatErrors)
    => last.exc = "AnnotatedAssertionError"

(***************************************************************************)
(* The Locals section of a rendered failure, read back from the text.      *)
(***************************************************************************)
LocalsMark == "\nLocals:\n\t"
AdviceMark == "\nAdvice:\n\t"

Between(text, i, j) == SubSeq(text, i, j - 1)

LocalsSection(text) ==
    Between(text, IndexOf(text, LocalsMark, 1) + Len(LocalsMark),
            IndexOf(text, AdviceMark, IndexOf(text, LocalsMark, 1) + Len(LocalsMark)))

Entries(section) == IF section = "" THEN <<>> ELSE Split(section, "\n\t")

Listed(e) == Entries(LocalsSection(e._formatted_msg.v))

\* the name of an entry name=value
EntryName(entry) == SubSeq(entry, 1, IndexOf(entry, "=", 1) - 1)

Reserved(name) == name \in {"message", "advice", "self"} \/ Head(name) = "_"

Expected(e) ==
    {e._locals.v[k].name \o "=" \o e._locals.v[k].value :
        k \in {k \in 1..Len(e._locals.v) : ~Reserved(e._locals.v[k].name)}}

\* C6: the Locals section of a failure lists exactly the captured names that
\* are not message, advice or self and do not begin with an underscore, one
\* name=value entry each; no reserved or underscore name appears in it.
C6_LocalsFiltered ==
    \A i \in 1..Len(errors) :
        /\ {Listed(errors[i])[k] : k \in 1..Len(Listed(errors[i]))} = Expected(errors[i])
        /\ Len(Listed(errors[i])) = Cardinality(Expected(errors[i]))
        /\ \A k \in 1..Len(Listed(errors[i])) : ~Reserved(EntryName(Listed(errors[i])[k]))

\* a failure raised in a frame that binds message, advice, _tmp, self and n
C6_Witness ==
    \E i \in 1..Len(errors) :
        /\ HasName(errors[i]._locals.v, "message")
        /\ HasName(errors[i]._locals.v, "advice")
        /\ HasName(errors[i]._locals.v, "_tmp")
        /\ HasName(errors[i]._locals.v, "self")
        /\ Listed(errors[i]) = <<"n=2">>

\* a call whose annotation is a two-element sequence
PairCall(c) ==
    /\ KeywordKeys(c) = {}
    /\ HasAnnotationArg(c)
    /\ AnnotationArg(c).kind = "seq"
    /\ Len(AnnotationArg(c).items) = 2

\* C7: a two-element sequence (m, a) is coerced to a mapping equal to
\* {message: m, advice: a}: the call forwards the annotation a call with
\* message=m, advice=a forwards.
C7_PairCoerced ==
    /\ (last.op = "call" /\ PairCall(last.call))
       => (/\ last.forwarded
           /\ DictEq(last.delivered, Mapping(AnnotationArg(last.call).items[1],
                                             AnnotationArg(last.call).items[2])))
    /\ (last.op = "call" /\ KeywordKeys(last.call) = RequiredSet)
       => (/\ last.forwarded
           /\ DictEq(last.delivered, Mapping(Get(last.call.kwargs, "message").s,
                                             Get(last.call.kwargs, "advice").s)))

\* a failing assertion was called with the pair (MsgRef, AdvPlain)
C7_Witness ==
    /\ last.op = "call"
    /\ PairCall(last.call)
    /\ AnnotationArg(last.call).items = <<MsgRef, AdvPlain>>
    /\ last.invoked
    /\ last.failed

\* C8: after construction every access to a property returns the value
\* computed at construction, without walking the stack or reading the source
\* again: the failure stays as __init__ left it.
C8_Memoized ==
    \A i \in 1..Len(errors) :
        /\ errors[i].walks = 0
        /\ errors[i].reads = 0
        /\ errors[i] = built[i]

\* C9: the statement _get_source uses for the start of the excerpt and for
\* the '>' marker is the statement that encloses the first node found with
\* the failing line number.
C9_EnclosingStatement ==
    \A i \in 1..Len(errors) :
        /\ UsesEnclosing(errors[i])
        /\ NumberOf(ExcerptLines(errors[i])[1]) = Pad4(EnclosingLine(errors[i]) - Leading)

NoBraces(text) == IndexOf(text, "{", 1) = 0 /\ IndexOf(text, "}", 1) = 0

\* C10: with no test_ frame on the stack locals, filename and linenumber stay
\* unset and the missing locals act as an empty mapping: templates with no
\* placeholder expand without a formatting error.
C10_NoTestFrame ==
    (/\ last.op = "call"
     /\ last.failed
     /\ TestLevel(last.stack) = 0)
    => (/\ ~last.obj._locals.some
        /\ ~last.obj._filename.some
        /\ ~last.obj._linenumber.some
        /\ (NoBraces(Get(last.delivered, "message")) /\ NoBraces(Get(last.delivered, "advice")))
               => last.exc \notin FormatErrors)

====
